---------------------------- MODULE Spec2Model ----------------------------
(***************************************************************************)
(* Model of the SANRAL tender scraper: SanralTender.from_api_response      *)
(* (src/models.py) and lambda_handler (src/lambda_function.py).            *)
(*                                                                         *)
(* Python text is modelled as a sequence of one-character strings, so that *)
(* every conversion the code applies (html.unescape, re.search, split/join,*)
(* replace, strip, title, upper, lower, strptime) is computed character by *)
(* character.  Python values are tagged records [t, v].                    *)
(***************************************************************************)
EXTENDS Integers, Sequences, FiniteSets, TLC

(***************************************************************************)
(* Python values                                                           *)
(***************************************************************************)
None == [t |-> "none", v |-> <<>>]
Str(s) == [t |-> "str", v |-> s]
PyInt(n) == [t |-> "int", v |-> <<n>>]
Dict == [t |-> "dict", v |-> <<>>]
List(items) == [t |-> "list", v |-> items]
Datetime(y, mo, d, h, mi) == [t |-> "datetime", v |-> <<y, mo, d, h, mi>>]

IsStr(x) == x.t = "str"
IsList(x) == x.t = "list"

\* the number of fields from_api_response requires of a row
MinFields == 6

(***************************************************************************)
(* Characters                                                              *)
(***************************************************************************)
LowerChars ==
  <<"a","b","c","d","e","f","g","h","i","j","k","l","m",
    "n","o","p","q","r","s","t","u","v","w","x","y","z">>
UpperChars ==
  <<"A","B","C","D","E","F","G","H","I","J","K","L","M",
    "N","O","P","Q","R","S","T","U","V","W","X","Y","Z">>
DigitChars == <<"0","1","2","3","4","5","6","7","8","9">>

Range(f) == {f[i] : i \in DOMAIN f}
IsLower(c) == c \in Range(LowerChars)
IsUpper(c) == c \in Range(UpperChars)
IsAlpha(c) == IsLower(c) \/ IsUpper(c)
IsDigit(c) == c \in Range(DigitChars)
\* str.isspace / the regex class \s, on the characters the model uses
IsSpace(c) == c \in {" ", "\t", "\n"}

IndexIn(c, chars) == CHOOSE i \in DOMAIN chars : chars[i] = c
ToLower(c) == IF IsUpper(c) THEN LowerChars[IndexIn(c, UpperChars)] ELSE c
ToUpper(c) == IF IsLower(c) THEN UpperChars[IndexIn(c, LowerChars)] ELSE c
DigitVal(c) == IndexIn(c, DigitChars) - 1

(***************************************************************************)
(* str methods                                                             *)
(***************************************************************************)
\* str.lower(), str.upper()
Lower(s) == [i \in 1..Len(s) |-> ToLower(s[i])]
Upper(s) == [i \in 1..Len(s) |-> ToUpper(s[i])]

\* str.title(): a cased character is upper-cased unless the character before
\* it is cased, in which case it is lower-cased
Title(s) ==
  [i \in 1..Len(s) |->
     IF IsAlpha(s[i])
       THEN IF i > 1 /\ IsAlpha(s[i-1]) THEN ToLower(s[i]) ELSE ToUpper(s[i])
       ELSE s[i]]

\* str.strip()
Strip(s) ==
  LET keep == {i \in 1..Len(s) : ~IsSpace(s[i])}
  IN  IF keep = {} THEN <<>>
      ELSE LET lo == CHOOSE i \in keep : \A j \in keep : i <= j
               hi == CHOOSE i \in keep : \A j \in keep : j <= i
           IN  SubSeq(s, lo, hi)

\* s[i:] and the test s[i:].startswith(p)
From(s, i) == SubSeq(s, i, Len(s))
StartsAt(s, i, p) ==
  /\ i + Len(p) - 1 <= Len(s)
  /\ \A k \in 1..Len(p) : s[i + k - 1] = p[k]
\* the same, ignoring case (re.IGNORECASE on a literal)
StartsAtI(s, i, p) ==
  /\ i + Len(p) - 1 <= Len(s)
  /\ \A k \in 1..Len(p) : ToLower(s[i + k - 1]) = ToLower(p[k])

\* ' '.join(s.split()): the whitespace-separated words, joined by one space
RECURSIVE JoinSplitFrom(_, _, _)
JoinSplitFrom(s, i, first) ==
  IF i > Len(s) THEN <<>>
  ELSE IF IsSpace(s[i]) THEN JoinSplitFrom(s, i + 1, first)
  ELSE LET ends == {j \in i..Len(s) : j = Len(s) \/ IsSpace(s[j + 1])}
           e == CHOOSE j \in ends : \A k \in ends : j <= k
       IN  (IF first THEN <<>> ELSE <<" ">>) \o SubSeq(s, i, e)
             \o JoinSplitFrom(s, e + 1, FALSE)
JoinSplit(s) == JoinSplitFrom(s, 1, TRUE)

\* str.replace(old, new): every non-overlapping occurrence, left to right
RECURSIVE ReplaceFrom(_, _, _, _)
ReplaceFrom(s, i, old, new) ==
  IF i > Len(s) THEN <<>>
  ELSE IF StartsAt(s, i, old) THEN new \o ReplaceFrom(s, i + Len(old), old, new)
  ELSE <<s[i]>> \o ReplaceFrom(s, i + 1, old, new)
Replace(s, old, new) == ReplaceFrom(s, 1, old, new)

(***************************************************************************)
(* html.unescape (named character references)                              *)
(*                                                                         *)
(* The reference table is the part of html.entities.html5 over the model's *)
(* characters: amp, lt, gt and quot, each with and without its semicolon.  *)
(* Numeric references (&#38;) are not among the modelled inputs.           *)
(***************************************************************************)
Html5 ==
  { << <<"a","m","p">>, <<"&">> >>,      << <<"a","m","p",";">>, <<"&">> >>,
    << <<"l","t">>, <<"<">> >>,          << <<"l","t",";">>, <<"<">> >>,
    << <<"g","t">>, <<">">> >>,          << <<"g","t",";">>, <<">">> >>,
    << <<"q","u","o","t">>, <<"\"">> >>, << <<"q","u","o","t",";">>, <<"\"">> >> }
InHtml5(name) == \E e \in Html5 : e[1] = name
Html5Of(name) == (CHOOSE e \in Html5 : e[1] = name)[2]

\* the class [^\t\n\f <&#;] of the reference pattern
IsNameChar(c) == c \notin {"\t", "\n", " ", "<", "&", "#", ";"}

\* _replace_charref for a named reference s (the text after the ampersand)
replace_charref(s) ==
  IF InHtml5(s) THEN Html5Of(s)
  ELSE LET xs == {x \in 2..(Len(s) - 1) : InHtml5(SubSeq(s, 1, x))}
       IN  IF xs = {} THEN <<"&">> \o s
           ELSE LET x == CHOOSE y \in xs : \A z \in xs : z <= y
                IN  Html5Of(SubSeq(s, 1, x)) \o From(s, x + 1)

RECURSIVE UnescapeFrom(_, _)
UnescapeFrom(s, i) ==
  IF i > Len(s) THEN <<>>
  ELSE IF s[i] # "&" THEN <<s[i]>> \o UnescapeFrom(s, i + 1)
  ELSE LET run == {j \in (i + 1)..Len(s) :
                     /\ j - i <= 32
                     /\ \A k \in (i + 1)..j : IsNameChar(s[k])}
       IN  IF run = {} THEN <<"&">> \o UnescapeFrom(s, i + 1)
           ELSE LET e == CHOOSE j \in run : \A k \in run : k <= j
                    last == IF e < Len(s) /\ s[e + 1] = ";" THEN e + 1 ELSE e
                IN  replace_charref(SubSeq(s, i + 1, last))
                      \o UnescapeFrom(s, last + 1)
unescape(s) == UnescapeFrom(s, 1)

(***************************************************************************)
(* re.search(r'href="([^"]+)">\s*(.*?)\s*</a>', title_html, re.IGNORECASE) *)
(***************************************************************************)
HrefOpen == <<"h","r","e","f","=","\"">>
AnchorClose == <<"<","/","a",">">>

\* the length of the run of whitespace starting at position i
WsRun(s, i) ==
  LET run == {n \in 0..(Len(s) - i + 1) : \A k \in i..(i + n - 1) : IsSpace(s[k])}
  IN  CHOOSE n \in run : \A m \in run : m <= n

\* (.*?)\s*</a> with group 2 spanning positions a..b-1: "." matches anything
\* but a newline
TailOK(s, a, b) ==
  /\ \A k \in a..(b - 1) : s[k] # "\n"
  /\ \E w \in 0..WsRun(s, b) : StartsAtI(s, b + w, AnchorClose)

NoMatch == [ok |-> FALSE, g1 |-> <<>>, g2 |-> <<>>]

\* the match starting at position p, by the pattern's priorities: [^"]+ and
\* both \s* are greedy, (.*?) is lazy
HrefMatchAt(s, p) ==
  IF ~StartsAtI(s, p, HrefOpen) THEN NoMatch
  ELSE
    LET q == p + Len(HrefOpen)
        run == {j \in q..Len(s) : \A k \in q..j : s[k] # "\""}
    IN  IF run = {} THEN NoMatch
        ELSE
          LET e == CHOOSE j \in run : \A k \in run : k <= j
              r == e + 3
          IN  IF ~StartsAt(s, e + 1, <<"\"", ">">>) THEN NoMatch
              ELSE
                LET ws == {w \in 0..WsRun(s, r) :
                             \E b \in (r + w)..(Len(s) + 1) : TailOK(s, r + w, b)}
                IN  IF ws = {} THEN NoMatch
                    ELSE
                      LET w == CHOOSE x \in ws : \A y \in ws : y <= x
                          a == r + w
                          bs == {b \in a..(Len(s) + 1) : TailOK(s, a, b)}
                          b == CHOOSE x \in bs : \A y \in bs : x <= y
                      IN  [ok |-> TRUE, g1 |-> SubSeq(s, q, e),
                           g2 |-> SubSeq(s, a, b - 1)]

\* re.search: the match at the leftmost position that has one
HrefSearch(s) ==
  LET ps == {p \in 1..Len(s) : HrefMatchAt(s, p).ok}
  IN  IF ps = {} THEN NoMatch
      ELSE HrefMatchAt(s, CHOOSE p \in ps : \A o \in ps : p <= o)

(***************************************************************************)
(* re.findall(r'[a-zA-Z0-9._%+-]+@[a-zA-Z0-9.-]+\.[a-zA-Z]{2,}', text)     *)
(***************************************************************************)
IsLocalChar(c) == IsAlpha(c) \/ IsDigit(c) \/ c \in {".", "_", "%", "+", "-"}
IsDomainChar(c) == IsAlpha(c) \/ IsDigit(c) \/ c \in {".", "-"}
\* the {2,} of the pattern's last part
MinTld == 2

\* the length of the longest run of characters of a class starting at i
RunLen(s, i, InClass(_)) ==
  LET run == {n \in 0..(Len(s) - i + 1) : \A k \in i..(i + n - 1) : InClass(s[k])}
  IN  CHOOSE n \in run : \A m \in run : m <= n

\* the end (exclusive) of the match starting at p, or 0 when there is none;
\* every quantifier is greedy, the domain gives characters back until
\* \.[a-zA-Z]{2,} matches
EmailMatchEnd(s, p) ==
  LET l == RunLen(s, p, IsLocalChar)
      d == p + l + 1
      ks == {k \in 1..RunLen(s, d, IsDomainChar) :
               /\ d + k <= Len(s)
               /\ s[d + k] = "."
               /\ RunLen(s, d + k + 1, IsAlpha) >= MinTld}
  IN  IF l = 0 \/ p + l > Len(s) \/ s[p + l] # "@" \/ ks = {} THEN 0
      ELSE LET k == CHOOSE x \in ks : \A y \in ks : y <= x
           IN  d + k + 1 + RunLen(s, d + k + 1, IsAlpha)

RECURSIVE FindAllEmailsFrom(_, _)
FindAllEmailsFrom(s, p) ==
  IF p > Len(s) THEN <<>>
  ELSE LET e == EmailMatchEnd(s, p)
       IN  IF e = 0 THEN FindAllEmailsFrom(s, p + 1)
           ELSE <<SubSeq(s, p, e - 1)>> \o FindAllEmailsFrom(s, e)
FindAllEmails(s) == FindAllEmailsFrom(s, 1)

(***************************************************************************)
(* datetime.strptime(data_string, format)                                  *)
(*                                                                         *)
(* The format is turned into a regular expression, directive by directive; *)
(* re.match takes the first match in the alternatives' order, and the call *)
(* raises ValueError when there is none, when the match does not reach the *)
(* end of the string, or when the day does not exist in the month.         *)
(***************************************************************************)
MonthNames ==
  <<<<"J","a","n","u","a","r","y">>,
    <<"F","e","b","r","u","a","r","y">>,
    <<"M","a","r","c","h">>,
    <<"A","p","r","i","l">>,
    <<"M","a","y">>,
    <<"J","u","n","e">>,
    <<"J","u","l","y">>,
    <<"A","u","g","u","s","t">>,
    <<"S","e","p","t","e","m","b","e","r">>,
    <<"O","c","t","o","b","e","r">>,
    <<"N","o","v","e","m","b","e","r">>,
    <<"D","e","c","e","m","b","e","r">>>>

\* the character at position i, or an empty marker past the end
At(s, i) == IF i >= 1 /\ i <= Len(s) THEN s[i] ELSE ""
DigitAt(s, i) == IsDigit(At(s, i))
InChars(s, i, lo, hi) == DigitAt(s, i) /\ DigitVal(s[i]) >= lo /\ DigitVal(s[i]) <= hi
Alt(cond, n) == IF cond THEN <<n>> ELSE <<>>

\* the lengths a directive can match at position i, in the order of the
\* alternatives of its pattern
DirectiveAlts(d, s, i) ==
  CASE d = "Y" -> \* \d\d\d\d
         Alt(\A k \in 0..3 : DigitAt(s, i + k), 4)
    [] d = "m" -> \* 1[0-2]|0[1-9]|[1-9]
         Alt(At(s, i) = "1" /\ InChars(s, i + 1, 0, 2), 2)
           \o Alt(At(s, i) = "0" /\ InChars(s, i + 1, 1, 9), 2)
           \o Alt(InChars(s, i, 1, 9), 1)
    [] d = "d" -> \* 3[0-1]|[1-2]\d|0[1-9]|[1-9]| [1-9]
         Alt(At(s, i) = "3" /\ InChars(s, i + 1, 0, 1), 2)
           \o Alt(InChars(s, i, 1, 2) /\ DigitAt(s, i + 1), 2)
           \o Alt(At(s, i) = "0" /\ InChars(s, i + 1, 1, 9), 2)
           \o Alt(InChars(s, i, 1, 9), 1)
           \o Alt(At(s, i) = " " /\ InChars(s, i + 1, 1, 9), 2)
    [] d = "H" -> \* 2[0-3]|[0-1]\d|\d
         Alt(At(s, i) = "2" /\ InChars(s, i + 1, 0, 3), 2)
           \o Alt(InChars(s, i, 0, 1) /\ DigitAt(s, i + 1), 2)
           \o Alt(DigitAt(s, i), 1)
    [] d = "M" -> \* [0-5]\d|\d
         Alt(InChars(s, i, 0, 5) /\ DigitAt(s, i + 1), 2)
           \o Alt(DigitAt(s, i), 1)
    [] d = "B" -> \* the month names, ignoring case
         LET ms == {m \in DOMAIN MonthNames : StartsAtI(s, i, MonthNames[m])}
         IN  IF ms = {} THEN <<>> ELSE <<Len(MonthNames[CHOOSE m \in ms : TRUE])>>
    [] OTHER -> <<>>

RECURSIVE DigitsVal(_)
DigitsVal(s) ==
  IF s = <<>> THEN 0
  ELSE 10 * DigitsVal(SubSeq(s, 1, Len(s) - 1)) + DigitVal(s[Len(s)])

\* the value a directive reads from the text it matched
DirectiveVal(d, txt) ==
  IF d = "B" THEN CHOOSE m \in DOMAIN MonthNames : Lower(MonthNames[m]) = Lower(txt)
  ELSE DigitsVal(SelectSeq(txt, IsDigit))

NoParse == [ok |-> FALSE, end |-> 0, Y |-> 0, m |-> 0, d |-> 0, H |-> 0, M |-> 0]

RECURSIVE MatchFmt(_, _, _, _, _)
RECURSIVE TryAlts(_, _, _, _, _, _, _)
\* re.match of the format's pattern from format position fi at text position i
MatchFmt(fmt, fi, s, i, acc) ==
  IF fi > Len(fmt) THEN [acc EXCEPT !.ok = TRUE, !.end = i]
  ELSE IF fmt[fi] = "%" THEN
    TryAlts(fmt, fi, s, i, acc, DirectiveAlts(At(fmt, fi + 1), s, i), 1)
  ELSE IF IsSpace(fmt[fi]) THEN
    \* a run of whitespace in the format is \s+, greedy
    LET n == WsRun(fmt, fi)
        ok == {w \in 1..WsRun(s, i) : MatchFmt(fmt, fi + n, s, i + w, acc).ok}
    IN  IF ok = {} THEN NoParse
        ELSE MatchFmt(fmt, fi + n, s, i + (CHOOSE w \in ok : \A x \in ok : x <= w), acc)
  ELSE IF ToLower(At(s, i)) = ToLower(fmt[fi]) THEN MatchFmt(fmt, fi + 1, s, i + 1, acc)
  ELSE NoParse

TryAlts(fmt, fi, s, i, acc, alts, k) ==
  IF k > Len(alts) THEN NoParse
  ELSE LET d == fmt[fi + 1]
           v == DirectiveVal(d, SubSeq(s, i, i + alts[k] - 1))
           acc2 == CASE d = "Y" -> [acc EXCEPT !.Y = v]
                     [] d = "m" -> [acc EXCEPT !.m = v]
                     [] d = "B" -> [acc EXCEPT !.m = v]
                     [] d = "d" -> [acc EXCEPT !.d = v]
                     [] d = "H" -> [acc EXCEPT !.H = v]
                     [] d = "M" -> [acc EXCEPT !.M = v]
           r == MatchFmt(fmt, fi + 2, s, i + alts[k], acc2)
       IN  IF r.ok THEN r ELSE TryAlts(fmt, fi, s, i, acc, alts, k + 1)

IsLeap(y) == y % 4 = 0 /\ (y % 100 # 0 \/ y % 400 = 0)
DaysInMonth(y, m) ==
  IF m = 2 THEN (IF IsLeap(y) THEN 29 ELSE 28)
  ELSE IF m \in {4, 6, 9, 11} THEN 30 ELSE 31

ValueError == [t |-> "ValueError", v |-> <<>>]

\* the datetime of a match r, or ValueError when there is no match, text is
\* left over, or the date does not exist
FromMatch(r, s) ==
  IF ~r.ok \/ r.end # Len(s) + 1 THEN ValueError
  ELSE IF r.Y < 1 \/ r.d > DaysInMonth(r.Y, r.m) THEN ValueError
  ELSE Datetime(r.Y, r.m, r.d, r.H, r.M)

\* a datetime, or ValueError; fields the format does not name default to
\* 1900-01-01 00:00
strptime(s, fmt) ==
  FromMatch(MatchFmt(fmt, 1, s, 1,
                     [ok |-> FALSE, end |-> 0, Y |-> 1900, m |-> 1, d |-> 1,
                      H |-> 0, M |-> 0]),
            s)

(***************************************************************************)
(* parse_sanral_date (src/models.py, nested in from_api_response)          *)
(***************************************************************************)
formats_to_try ==
  << <<"%","Y","/","%","m","/","%","d"," ","%","H",":","%","M">>,
     <<"%","d","/","%","m","/","%","Y">>,
     <<"%","d"," ","%","B"," ","%","Y","."," ","%","H","H","%","M">> >>

\* the argument the loop hands to strptime for one format
DateArg(cleaned_str, fmt) ==
  IF "H" \in Range(fmt)
    THEN Replace(Replace(cleaned_str, <<".">>, <<>>), <<"H">>, <<>>)
    ELSE cleaned_str

RECURSIVE TryFormats(_, _)
\* the result of the first format that parses, or None
FirstParsed(r, cleaned_str, k) ==
  IF r = ValueError THEN TryFormats(cleaned_str, k + 1) ELSE r
TryFormats(cleaned_str, k) ==
  IF k > Len(formats_to_try) THEN None
  ELSE FirstParsed(strptime(DateArg(cleaned_str, formats_to_try[k]), formats_to_try[k]),
                   cleaned_str, k)

parse_sanral_date(date_str) ==
  IF ~IsStr(date_str) \/ date_str.v = <<>> THEN None
  ELSE TryFormats(Strip(date_str.v), 1)

(***************************************************************************)
(* The detail page, as the lookups of from_api_response see it             *)
(*                                                                         *)
(* header_div: soup.find('div', class_='page-header') found a div;         *)
(* h2: the text of its h2, or None; h3: the text of the first h3, or None; *)
(* notice_label: a td whose text is "Tender Notice:" exists; notice_cell:  *)
(* the text of the td after it, or None; create_th and create_td likewise  *)
(* for the "Create Date" th.  An element holds one text node.              *)
(***************************************************************************)
\* Tag.get_text(strip=True) and get_text(separator=' ', strip=True) of an
\* element with one text node
get_text(el) == Strip(el.v)

\* the response of the detail-page fetch: kind is "ok" (status 2xx, page is
\* the parsed body), or the exception requests.get or raise_for_status raises
FetchFailed(net) == net.kind # "ok"

Origin ==
  <<"h","t","t","p","s",":","/","/","w","w","w",".","n","r","a",".","c","o",".","z","a">>
TenderNotice == <<"T","e","n","d","e","r"," ","N","o","t","i","c","e",":">>
\* a published-date format with the day before the month
PublishedFormatDayFirst == <<"%","d"," ","%","B",","," ","%","Y">>
PublishedFormat == <<"%","B"," ","%","d",","," ","%","Y">>
NA == <<"N","/","A">>
SANRAL == <<"S","A","N","R","A","L">>
TenderDetails == <<"T","e","n","d","e","r"," ","D","e","t","a","i","l","s">>

\* --- Step 2: the scrape of the details page (the body of the try block) ---
ScrapeTitle(page, title) ==
  IF page.header_div /\ page.h2 # None THEN get_text(page.h2) ELSE title

ScrapeDescription(page, description) ==
  IF page.h3 # None THEN get_text(page.h3) ELSE description

ScrapeNotice(page, full_notice_text) ==
  IF page.notice_label /\ page.notice_cell # None
    THEN get_text(page.notice_cell) ELSE full_notice_text

\* the published date, and whether the parse failure was logged
PubDateOf(r) ==
  IF r = ValueError THEN [date |-> None, warned |-> 1] ELSE [date |-> r, warned |-> 0]
ScrapePubDate(page) ==
  IF page.create_th /\ page.create_td # None
    THEN PubDateOf(strptime(get_text(page.create_td), PublishedFormat))
    ELSE [date |-> None, warned |-> 0]

\* the first address found instead of the last
FirstLowered(emails_found) ==
  IF emails_found # <<>> THEN Lower(emails_found[1]) ELSE <<>>

\* --- Step 3: the last address found in the text, lower-cased ---
LastLowered(emails_found) ==
  IF emails_found # <<>> THEN Lower(emails_found[Len(emails_found)]) ELSE <<>>
ExtractEmail(full_notice_text) == LastLowered(FindAllEmails(full_notice_text))

SupportingDoc(name, url) == [name |-> name, url |-> url]

Returned(value, fetched, warnings) ==
  [kind |-> "return", value |-> value, fetched |-> fetched, warnings |-> warnings]
Raised(exc, fetched, warnings) ==
  [kind |-> "raise", value |-> [t |-> exc, v |-> <<>>], fetched |-> fetched,
   warnings |-> warnings]

\* a validation that also rejects a row of exactly six fields
InvalidItemOffByOne(response_item) ==
  ~IsList(response_item) \/ Len(response_item.v) <= MinFields

\* --- Initial validation ---
InvalidItem(response_item) ==
  ~IsList(response_item) \/ Len(response_item.v) < MinFields

\* a URL that lacks the portal's origin
BuildUrlRelative(url_path) == url_path

\* the absolute URL of the details page
BuildUrl(url_path) == Origin \o url_path

\* --- Step 1: the provisional values, from the row and the match of the
\* link pattern in its title field (item[k + 1] is response_item[k]) ---
ParseSummary(item, match) ==
  [url |-> IF match.ok /\ match.g1 # <<>> THEN BuildUrl(match.g1) ELSE <<>>,
   tender_number |-> IF match.ok THEN JoinSplit(match.g2) ELSE NA,
   description |->
     Strip(Replace(JoinSplit(unescape(item[4].v)), TenderNotice, <<>>)),
   full_notice_text |-> JoinSplit(unescape(item[5].v)),
   close_date |-> parse_sanral_date(item[6])]

\* a scrape that does not test the URL
HasUrlAlways(prov) == TRUE

\* "if url:" (the empty string and None are both false)
HasUrl(prov) == prov.url # <<>>

\* a failed fetch that loses the provisional description
UnscrapedNoDescription(prov, warnings) ==
  [title |-> prov.tender_number, description |-> <<>>,
   full_notice_text |-> prov.full_notice_text, pub_date |-> None,
   warnings |-> warnings]

\* --- Step 2: the values after the scrape.  A failed fetch leaves the
\* provisional values and logs one warning ---
Unscraped(prov, warnings) ==
  [title |-> prov.tender_number, description |-> prov.description,
   full_notice_text |-> prov.full_notice_text, pub_date |-> None,
   warnings |-> warnings]
Scraped(prov, page, pub) ==
  [title |-> ScrapeTitle(page, prov.tender_number),
   description |-> ScrapeDescription(page, prov.description),
   full_notice_text |-> ScrapeNotice(page, prov.full_notice_text),
   pub_date |-> pub.date, warnings |-> pub.warned]
Scrape(prov, net) ==
  IF ~HasUrl(prov) THEN Unscraped(prov, 0)
  ELSE IF FetchFailed(net) THEN Unscraped(prov, 1)
  ELSE Scraped(prov, net.page, ScrapePubDate(net.page))

\* the URLs the call fetched
Fetched(prov) == IF HasUrl(prov) THEN <<prov.url>> ELSE <<>>

\* --- Steps 3 and 4: the Tender.  response_item[1].strip() raises
\* AttributeError on a value that is not text ---
Finalize(item, prov, s) ==
  IF ~IsStr(item[2]) \/ ~IsStr(item[3])
    THEN Raised("AttributeError", Fetched(prov), s.warnings)
  ELSE
    Returned([title |-> Title(s.title),
              description |-> Title(s.description),
              source |-> SANRAL,
              published_date |-> s.pub_date,
              closing_date |-> prov.close_date,
              supporting_docs |->
                IF HasUrl(prov) THEN <<SupportingDoc(TenderDetails, prov.url)>>
                ELSE <<>>,
              tags |-> <<>>,
              tender_number |-> Upper(prov.tender_number),
              category |-> Title(Strip(item[2].v)),
              region |-> Title(Strip(item[3].v)),
              email |-> ExtractEmail(s.full_notice_text),
              full_notice_text |-> Title(s.full_notice_text)],
             Fetched(prov), s.warnings)

Assembled(item, prov, net) == Finalize(item, prov, Scrape(prov, net))

(***************************************************************************)
(* SanralTender.from_api_response(response_item), with net the response of *)
(* the detail-page fetch should the call issue one.  The result records    *)
(* whether the call returned or raised, the value, the URLs fetched and    *)
(* the number of warnings logged.                                          *)
(***************************************************************************)
from_api_response(response_item, net) ==
  IF InvalidItem(response_item) THEN Returned(None, <<>>, 0)
  \* html.unescape and re.search raise TypeError on a value that is not text
  ELSE IF \E k \in {1, 4, 5} : ~IsStr(response_item.v[k])
    THEN Raised("TypeError", <<>>, 0)
  ELSE Assembled(response_item.v,
                 ParseSummary(response_item.v,
                              HrefSearch(unescape(response_item.v[1].v))),
                 net)

(***************************************************************************)
(* SanralTender(...): the constructor, on keyword arguments a              *)
(***************************************************************************)
\* TenderBase.__init__: "x if x is not None else []"
ListOrEmpty(x) == IF x.t = "none" THEN <<>> ELSE x.v

SanralTender(a) ==
  [title |-> a.title,
   description |-> a.description,
   source |-> a.source,
   published_date |-> a.published_date,
   closing_date |-> a.closing_date,
   supporting_docs |-> ListOrEmpty(a.supporting_docs),
   tags |-> ListOrEmpty(a.tags),
   tender_number |-> a.tender_number,
   category |-> a.category,
   region |-> a.region,
   email |-> a.email,
   full_notice_text |-> a.full_notice_text]

(***************************************************************************)
(* TenderBase.to_dict and SanralTender.to_dict                             *)
(*                                                                         *)
(* A dict is the sequence of its <<key, value>> pairs in insertion order.  *)
(***************************************************************************)
PyDict(pairs) == [t |-> "dict", v |-> pairs]

\* str(n) for n >= 0, and n zero-padded to a width
RECURSIVE IntToChars(_)
IntToChars(n) ==
  IF n < 10 THEN <<DigitChars[n + 1]>>
  ELSE IntToChars(n \div 10) \o <<DigitChars[(n % 10) + 1]>>
RECURSIVE Padded(_, _)
Padded(n, width) ==
  IF width = 0 THEN <<>>
  ELSE Padded(n \div 10, width - 1) \o <<DigitChars[(n % 10) + 1]>>

\* datetime.isoformat() of a datetime with no seconds: YYYY-MM-DDTHH:MM:SS
isoformat(d) ==
  Padded(d.v[1], 4) \o <<"-">> \o Padded(d.v[2], 2) \o <<"-">> \o Padded(d.v[3], 2)
    \o <<"T">> \o Padded(d.v[4], 2) \o <<":">> \o Padded(d.v[5], 2)
    \o <<":", "0", "0">>

\* a serialization that writes an absent timestamp as empty text
IsoOrEmpty(d) == IF d = None THEN Str(<<>>) ELSE Str(isoformat(d))

\* "x.isoformat() if x else None"
IsoOrNone(d) == IF d = None THEN None ELSE Str(isoformat(d))

\* SupportingDoc.to_dict
doc_to_dict(doc) ==
  PyDict(<< <<<<"n","a","m","e">>, Str(doc.name)>>, <<<<"u","r","l">>, Str(doc.url)>> >>)

\* TenderBase.to_dict
base_to_dict(tender) ==
  << <<<<"t","i","t","l","e">>, Str(tender.title)>>,
     <<<<"d","e","s","c","r","i","p","t","i","o","n">>, Str(tender.description)>>,
     <<<<"s","o","u","r","c","e">>, Str(tender.source)>>,
     <<<<"p","u","b","l","i","s","h","e","d","D","a","t","e">>,
       IsoOrNone(tender.published_date)>>,
     <<<<"c","l","o","s","i","n","g","D","a","t","e">>,
       IsoOrNone(tender.closing_date)>>,
     <<<<"s","u","p","p","o","r","t","i","n","g","_","d","o","c","s">>,
       List([i \in 1..Len(tender.supporting_docs) |->
               doc_to_dict(tender.supporting_docs[i])])>>,
     <<<<"t","a","g","s">>,
       List([i \in 1..Len(tender.tags) |-> Str(tender.tags[i])])>> >>

\* SanralTender.to_dict: the base mapping, updated with the SANRAL fields
to_dict(tender) ==
  PyDict(base_to_dict(tender) \o
    << <<<<"t","e","n","d","e","r","N","u","m","b","e","r">>, Str(tender.tender_number)>>,
       <<<<"c","a","t","e","g","o","r","y">>, Str(tender.category)>>,
       <<<<"r","e","g","i","o","n">>, Str(tender.region)>>,
       <<<<"e","m","a","i","l">>, Str(tender.email)>>,
       <<<<"f","u","l","l","N","o","t","i","c","e","T","e","x","t">>,
         Str(tender.full_notice_text)>> >>)

(***************************************************************************)
(* json.dumps, for the values to_dict produces                             *)
(***************************************************************************)
\* the escape of one character inside a JSON string
JsonChar(c) ==
  CASE c = "\"" -> <<"\\", "\"">>
    [] c = "\\" -> <<"\\", "\\">>
    [] c = "\n" -> <<"\\", "n">>
    [] c = "\t" -> <<"\\", "t">>
    [] OTHER -> <<c>>

RECURSIVE JsonString(_)
JsonString(s) ==
  IF s = <<>> THEN <<>> ELSE JsonChar(s[1]) \o JsonString(Tail(s))

RECURSIVE json_dumps(_)
RECURSIVE JsonItems(_, _)
RECURSIVE JsonPairs(_, _)
\* the items of a list, and the pairs of a dict, from position i, joined by ", "
JsonItems(items, i) ==
  IF i > Len(items) THEN <<>>
  ELSE (IF i > 1 THEN <<",", " ">> ELSE <<>>) \o json_dumps(items[i])
         \o JsonItems(items, i + 1)
JsonPairs(pairs, i) ==
  IF i > Len(pairs) THEN <<>>
  ELSE (IF i > 1 THEN <<",", " ">> ELSE <<>>)
         \o <<"\"">> \o JsonString(pairs[i][1]) \o <<"\"", ":", " ">>
         \o json_dumps(pairs[i][2]) \o JsonPairs(pairs, i + 1)
json_dumps(x) ==
  CASE x.t = "none" -> <<"n", "u", "l", "l">>
    [] x.t = "str" -> <<"\"">> \o JsonString(x.v) \o <<"\"">>
    [] x.t = "list" -> <<"[">> \o JsonItems(x.v, 1) \o <<"]">>
    [] x.t = "dict" -> <<"{">> \o JsonPairs(x.v, 1) \o <<"}">>


(***************************************************************************)
(* Inputs                                                                  *)
(***************************************************************************)
\* title fields: a link, no link, an entity-encoded link, a link whose text
\* spans two lines (the pattern's "." does not cross a newline), a link with
\* no text, and markup that is not an anchor but carries href="...">...</a>
TitleLink == Str(<<"<","a"," ","h","r","e","f","=","\"","/","t","e","n","d","e","r","/","1","2","3","\"",">","R","F","P","1","2","3","/","2","0","2","5","<","/","a",">">>)
TitlePlain == Str(<<"M","a","i","n","t","e","n","a","n","c","e"," ","o","f"," ","N","3">>)
TitleEncoded ==
  Str(<<"&","l","t",";","a"," ","h","r","e","f","=","&","q","u","o","t",";","/","t","/","9","&","q","u","o","t",";","&","g","t",";"," ","r","f","p"," "," ","9"," ","&","l","t",";","/","a","&","g","t",";">>)
TitleTwoLines == Str(<<"<","a"," ","h","r","e","f","=","\"","/","t","/","4","\"",">","r","f","p","\n","4","<","/","a",">">>)
TitleEmptyText == Str(<<"<","A"," ","H","R","E","F","=","\"","/","t","/","5","\"",">","<","/","A",">">>)
TitleNotAnchor == Str(<<"<","b"," ","h","r","e","f","=","\"","/","t","/","6","\"",">","r","f","p","6","<","/","a",">">>)

Construction == Str(<<"C","o","n","s","t","r","u","c","t","i","o","n">>)
KwaZuluNatal == Str(<<"K","w","a","Z","u","l","u","-","N","a","t","a","l">>)
DescUpgrade == Str(<<"T","e","n","d","e","r"," ","N","o","t","i","c","e",":"," ","U","p","g","r","a","d","e"," ","o","f"," ","N","2">>)
DescEntity == Str(<<" ","R","&","a","m","p",";","D"," "," ","w","o","r","k","s","\t","T","e","n","d","e","r"," ","N","o","t","i","c","e",":">>)
NoticeOneAddress == Str(<<"F","u","l","l"," ","t","e","x","t"," ","i","n","f","o","@","s","a","n","r","a","l",".","c","o",".","z","a">>)
NoticeTwoAddresses ==
  Str(<<"A","s","k"," ","A","@","x",".","c","o","m"," ","o","r"," "," ","B","i","d",".","D","e","s","k","@","N","R","A",".","c","o",".","z","a",".">>)
NoticeNoAddress == Str(<<"n","o"," ","a","d","d","r","e","s","s"," ","h","e","r","e">>)

DateSlash == Str(<<"2","0","2","5","/","1","2","/","3","1"," ","1","4",":","0","0">>)
DateDayFirst == Str(<<"3","1","/","1","2","/","2","0","2","5">>)
DateVerbose == Str(<<"3","1"," ","D","e","c","e","m","b","e","r"," ","2","0","2","5","."," ","1","4","H","0","0">>)

Row(title, category, region, description, notice, date) ==
  List(<<title, category, region, description, notice, date>>)
BaseRow(title, notice, date) ==
  Row(title, Construction, KwaZuluNatal, DescUpgrade, notice, date)

\* rows of six text fields
TextRows ==
  { BaseRow(ti, NoticeOneAddress, DateSlash) :
      ti \in {TitleLink, TitlePlain, TitleEncoded, TitleTwoLines,
              TitleEmptyText, TitleNotAnchor} }
  \cup { BaseRow(TitleLink, no, DateSlash) :
           no \in {NoticeTwoAddresses, NoticeNoAddress} }
  \cup { BaseRow(ti, NoticeOneAddress, da) :
           ti \in {TitleLink, TitlePlain},
           da \in {DateDayFirst, DateVerbose, Str(<<"s","o","o","n">>),
                   Str(<<" ","2","9","/","0","2","/","2","0","2","4"," ">>), Str(<<"2","0","2","5","/","0","2","/","3","0"," ","1","0",":","0","0">>),
                   Str(<<"2","0","2","5","/","1","/","5"," ","9",":","0","5">>), Str(<<>>)} }
  \cup { Row(TitleLink, Str(<<" ","r","o","a","d"," ","w","o","r","k","s"," ">>), Str(<<"w","e","s","t","e","r","n"," ","c","a","p","e">>), DescEntity,
             NoticeTwoAddresses, DateDayFirst),
         List(<<TitleLink, Construction, KwaZuluNatal, DescUpgrade,
                NoticeOneAddress, DateSlash, Str(<<"e","x","t","r","a">>)>>) }

\* six-element rows with a field that is not text
NonTextRows ==
  { Row(None, Construction, KwaZuluNatal, DescUpgrade, NoticeOneAddress, DateSlash),
    Row(TitleLink, None, KwaZuluNatal, DescUpgrade, NoticeOneAddress, DateSlash),
    Row(TitleLink, Construction, PyInt(7), DescUpgrade, NoticeOneAddress, DateSlash),
    Row(TitlePlain, Construction, PyInt(7), DescUpgrade, NoticeOneAddress, DateSlash),
    Row(TitleLink, Construction, KwaZuluNatal, None, NoticeOneAddress, DateSlash),
    Row(TitleLink, Construction, KwaZuluNatal, DescUpgrade, PyInt(7), DateSlash),
    Row(TitleLink, Construction, KwaZuluNatal, DescUpgrade, NoticeOneAddress, None),
    Row(TitleLink, Construction, KwaZuluNatal, DescUpgrade, NoticeOneAddress, PyInt(0)) }

\* values that are not a list, and lists of fewer than six fields
WrongShape ==
  { None, Dict, Str(TitleLink.v), List(<<>>), List(<<TitleLink>>),
    List(<<TitleLink, Construction, KwaZuluNatal, DescUpgrade, NoticeOneAddress>>) }

Items == TextRows \cup NonTextRows \cup WrongShape

Page(div, h2, h3, label, cell, th, td) ==
  [header_div |-> div, h2 |-> h2, h3 |-> h3, notice_label |-> label,
   notice_cell |-> cell, create_th |-> th, create_td |-> td]
NoPage == Page(FALSE, None, None, FALSE, None, FALSE, None)

\* what each lookup can find: no element, the element without the part that
\* is read, the part with empty text, the part with text
HeaderChoices ==
  { <<FALSE, None>>, <<TRUE, None>>, <<TRUE, Str(<<>>)>>,
    <<TRUE, Str(<<" ","R","o","a","d"," ","U","p","g","r","a","d","e"," ","T","e","n","d","e","r"," ">>)>> }
H3Choices == { None, Str(<<" ">>), Str(<<"U","p","g","r","a","d","e"," ","o","f"," ","N","2"," ","S","e","c","t","i","o","n">>) }
NoticeChoices ==
  { <<FALSE, None>>, <<TRUE, None>>, <<TRUE, Str(<<>>)>>,
    <<TRUE, Str(<<"D","e","t","a","i","l","s",":"," ","B","i","d","s","@","S","a","n","r","a","l",".","c","o",".","z","a">>)>>,
    <<TRUE, Str(<<"N","o"," ","c","o","n","t","a","c","t"," ","g","i","v","e","n">>)>> }
CreateChoices ==
  { <<FALSE, None>>, <<TRUE, None>>, <<TRUE, Str(<<"1","0"," ","O","c","t"," ","2","0","2","5">>)>>,
    <<TRUE, Str(<<"O","c","t","o","b","e","r"," ","1","0",","," ","2","0","2","5">>)>> }

Pages ==
  { Page(h[1], h[2], h3, n[1], n[2], c[1], c[2]) :
      h \in HeaderChoices, h3 \in H3Choices, n \in NoticeChoices, c \in CreateChoices }

Ok(page) == [kind |-> "ok", page |-> page]
Failure(kind) == [kind |-> kind, page |-> NoPage]
\* requests.get raising (no connection, timeout) and raise_for_status raising
Failures == { Failure("ConnectionError"), Failure("Timeout"), Failure("HTTPError") }
Nets == Failures \cup { Ok(p) : p \in Pages }

FullPage ==
  Page(TRUE, Str(<<" ","R","o","a","d"," ","U","p","g","r","a","d","e"," ","T","e","n","d","e","r"," ">>), Str(<<"U","p","g","r","a","d","e"," ","o","f"," ","N","2"," ","S","e","c","t","i","o","n">>),
       TRUE, Str(<<"D","e","t","a","i","l","s",":"," ","B","i","d","s","@","S","a","n","r","a","l",".","c","o",".","z","a">>),
       TRUE, Str(<<"O","c","t","o","b","e","r"," ","1","0",","," ","2","0","2","5">>))
UnparseableDatePage ==
  Page(TRUE, Str(<<" ","R","o","a","d"," ","U","p","g","r","a","d","e"," ","T","e","n","d","e","r"," ">>), Str(<<"U","p","g","r","a","d","e"," ","o","f"," ","N","2"," ","S","e","c","t","i","o","n">>),
       TRUE, Str(<<"D","e","t","a","i","l","s",":"," ","B","i","d","s","@","S","a","n","r","a","l",".","c","o",".","z","a">>),
       TRUE, Str(<<"1","0"," ","O","c","t"," ","2","0","2","5">>))
FewNets ==
  Failures \cup { Ok(FullPage), Ok(NoPage),
                  Ok(Page(TRUE, Str(<<>>), Str(<<>>), TRUE, Str(<<>>), TRUE, Str(<<>>))) }
FewItems ==
  { BaseRow(TitleLink, NoticeOneAddress, DateSlash),
    BaseRow(TitleEncoded, NoticeNoAddress, DateSlash) }

\* the calls of from_api_response that are explored: every item with a few
\* responses, and a few items with every response
Calls == (Items \X FewNets) \cup (FewItems \X Nets)

(***************************************************************************)
(* Inputs of lambda_handler                                                *)
(***************************************************************************)
\* the rows a feed is made of: a null row, a row of too few fields, a row
\* whose title is not text (TypeError before any fetch), a row whose category
\* is not text (AttributeError after the fetch), a row whose date is not text
\* (no exception: the date is absent), a row with a link and a row without one
NullRow == None
ShortRow == List(<<TitleLink, Construction>>)
BadTitleRow ==
  Row(PyInt(7), Construction, KwaZuluNatal, DescUpgrade, NoticeOneAddress, DateSlash)
BadCategoryRow ==
  Row(TitleLink, None, KwaZuluNatal, DescUpgrade, NoticeOneAddress, DateSlash)
NullDateRow == BaseRow(TitlePlain, NoticeNoAddress, None)
LinkRow == BaseRow(TitleLink, NoticeOneAddress, DateSlash)
PlainRow == BaseRow(TitlePlain, NoticeTwoAddresses, DateDayFirst)
FeedRows ==
  {NullRow, ShortRow, BadTitleRow, BadCategoryRow, NullDateRow, LinkRow, PlainRow}

\* the longest feed explored
MaxFeed == 2
Feeds == UNION { [1..n -> FeedRows] : n \in 0..MaxFeed }

\* the responses of the detail pages of a feed's rows
FeedNets == { Failure("Timeout"), Ok(FullPage) }

\* feeds long enough to fill more than one batch: the first n rows of a feed
\* that repeats a row without a link, a row with one and a row without a
\* date, every sixth row being too short; their detail pages all answer
MaxLongFeed == 25
LongRow(i) ==
  IF i % 6 = 0 THEN ShortRow
  ELSE IF i % 3 = 1 THEN PlainRow
  ELSE IF i % 3 = 2 THEN LinkRow
  ELSE NullDateRow
LongFeeds == { [i \in 1..n |-> LongRow(i)] : n \in 0..MaxLongFeed }
LongNets == { Ok(FullPage) }

\* the Tenders to serialize: built by the constructor from titles and
\* addresses that may be empty, dates that may be absent, and document and
\* tag lists that may be None, empty or hold up to MaxDocs and MaxTags
\* items; and Tenders assembled by from_api_response
MaxDocs == 2
MaxTags == 2
DocPool ==
  { SupportingDoc(TenderDetails, <<"h","t","t","p","s",":","/","/","e","x","a","m","p","l","e",".","c","o","m">>),
    SupportingDoc(<<"B","i","l","l"," ","\"","A","\"">>, <<"h","t","t","p","s",":","/","/","e","x","a","m","p","l","e",".","c","o","m","/","b","\\","q">>) }
TagPool == { <<"i","n","f","r","a","s","t","r","u","c","t","u","r","e">>, <<"r","o","a","d","s">> }
DocLists == {None} \cup { List(s) : s \in UNION { [1..n -> DocPool] : n \in 0..MaxDocs } }
TagLists == {None} \cup { List(s) : s \in UNION { [1..n -> TagPool] : n \in 0..MaxTags } }
TenderArgs ==
  [title : { <<>>, <<"R","o","a","d"," ","U","p","g","r","a","d","e">> },
   description : { <<"U","p","g","r","a","d","e"," ","o","f"," ","N","2">> },
   source : { SANRAL },
   published_date : { None, Datetime(2025, 10, 10, 0, 0) },
   closing_date : { None, Datetime(2025, 12, 31, 14, 0), Datetime(987, 6, 5, 4, 3) },
   supporting_docs : DocLists,
   tags : TagLists,
   tender_number : { <<"R","F","P","1","2","3","/","2","0","2","5">> },
   category : { <<"C","o","n","s","t","r","u","c","t","i","o","n">> },
   region : { <<"K","w","a","Z","u","l","u","-","N","a","t","a","l">> },
   email : { <<>>, <<"i","n","f","o","@","s","a","n","r","a","l",".","c","o",".","z","a">> },
   full_notice_text : { <<"F","u","l","l"," ","t","e","n","d","e","r","\n","d","e","t","a","i","l","s">> }]
AssembledTenders ==
  { from_api_response(c[1], c[2]).value :
      c \in {LinkRow, PlainRow, NullDateRow} \X FeedNets }
Tenders == { SanralTender(a) : a \in TenderArgs } \cup AssembledTenders

\* the rows and detail-page responses of repeated calls: two rows whose
\* links differ, each with its page answering or out of reach, a row whose
\* assembly raises after its fetch, and a row without a link, which fetches
\* nothing
MaxCalls == 3
EncodedRow == BaseRow(TitleEncoded, NoticeTwoAddresses, DateSlash)
RepeatCalls ==
  ({LinkRow, EncodedRow} \X FeedNets)
    \cup { <<BadCategoryRow, Ok(FullPage)>>,
           <<PlainRow, Failure("Timeout")>> }

(***************************************************************************)
(* State                                                                   *)
(***************************************************************************)
VARIABLES
  call,              \* SpecAssemble: the call of from_api_response, its
                     \* argument, the detail page's response and its result
  history,           \* SpecRepeat: the calls of from_api_response made so
                     \* far, each with its argument, response and result
  serial,            \* SpecSerialize: a Tender, and what to_dict returned
  pc,                \* lambda_handler: the step it is at
  feed_response,     \* how the feed answered the request of step 1
  all_tenders,       \* the rows of the feed
  item_index,        \* the number of rows the loop has handled
  responses,         \* the detail-page response offered to each handled row
  processed_tenders, \* the Tenders assembled so far
  skipped_count,     \* the rows skipped so far
  fetch_log,         \* the detail-page URLs fetched so far
  message_batches,   \* the batches of serialized tenders
  batch_index,       \* the number of batches the send loop has handled
  sqs_log,           \* every send_message_batch call: its Entries and
                     \* what SQS answered
  sent_count,        \* the entries SQS reported Successful
  result             \* what lambda_handler returned, or raised

handler_vars ==
  <<pc, feed_response, all_tenders, item_index, responses, processed_tenders, skipped_count,
    fetch_log, message_batches, batch_index, sqs_log, sent_count, result>>
vars == <<call, history, serial, handler_vars>>

NoResult == Returned(None, <<>>, 0)
NoCall == [item |-> None, net |-> Failure("none"), result |-> NoResult, made |-> FALSE]
NotReturned == [statusCode |-> 0, body |-> "", raised |-> ""]
NoSerial == [tender |-> None, data |-> None, done |-> FALSE]

\* the state of lambda_handler on entry
HandlerStart ==
  /\ pc = "fetch"
  /\ feed_response = "none"
  /\ all_tenders = <<>>
  /\ item_index = 0
  /\ responses = <<>>
  /\ processed_tenders = <<>>
  /\ skipped_count = 0
  /\ fetch_log = <<>>
  /\ message_batches = <<>>
  /\ batch_index = 0
  /\ sqs_log = <<>>
  /\ sent_count = 0
  /\ result = NotReturned

(***************************************************************************)
(* SpecAssemble: one call of SanralTender.from_api_response, on an         *)
(* argument and a detail-page response drawn from Calls                    *)
(***************************************************************************)
InitAssemble ==
  /\ \E c \in Calls :
       call = [item |-> c[1], net |-> c[2], result |-> NoResult, made |-> FALSE]
  /\ history = <<>>
  /\ serial = NoSerial
  /\ HandlerStart

Assemble ==
  /\ ~call.made
  /\ call' = [call EXCEPT !.result = from_api_response(call.item, call.net),
                          !.made = TRUE]
  /\ UNCHANGED <<history, serial, handler_vars>>

NextAssemble == Assemble

SpecAssemble == InitAssemble /\ [][NextAssemble]_vars

(***************************************************************************)
(* SpecSerialize: tender.to_dict() on a Tender drawn from Tenders          *)
(***************************************************************************)
InitSerialize ==
  /\ call = NoCall
  /\ history = <<>>
  /\ \E tender \in Tenders :
       serial = [tender |-> tender, data |-> None, done |-> FALSE]
  /\ HandlerStart

Serialize ==
  /\ ~serial.done
  /\ serial' = [serial EXCEPT !.data = to_dict(serial.tender), !.done = TRUE]
  /\ UNCHANGED <<call, history, handler_vars>>

NextSerialize == Serialize

SpecSerialize == InitSerialize /\ [][NextSerialize]_vars

(***************************************************************************)
(* SpecRepeat: up to MaxCalls calls of SanralTender.from_api_response, one *)
(* after another, in one process                                           *)
(***************************************************************************)
InitRepeat == call = NoCall /\ history = <<>> /\ serial = NoSerial /\ HandlerStart

\* the earliest of the earlier calls that fetched the URLs a call fetches
FirstFetchOf(fetched, earlier) ==
  LET same == { i \in 1..Len(earlier) : earlier[i].result.fetched = fetched }
  IN  IF fetched = <<>> \/ same = {} THEN 0
      ELSE CHOOSE i \in same : \A j \in same : i <= j

\* an assembly that keeps the detail pages it fetched and answers a later
\* call for the same URL from what it kept
CallCached(response_item, net, earlier) ==
  LET first == FirstFetchOf(from_api_response(response_item, net).fetched, earlier)
  IN  IF first = 0 THEN from_api_response(response_item, net)
      ELSE from_api_response(response_item, earlier[first].net)

\* a call made after the calls of earlier: the method is a classmethod that
\* works on its argument, its local variables and the response of its own
\* requests.get; models.py has no module, class or instance attribute that
\* a call writes and a later call reads, so earlier is not used
CallAfter(response_item, net, earlier) == from_api_response(response_item, net)

CallFromApiResponse ==
  /\ Len(history) < MaxCalls
  /\ \E c \in RepeatCalls :
       history' = Append(history,
                         [item |-> c[1], net |-> c[2],
                          result |-> CallAfter(c[1], c[2], history)])
  /\ UNCHANGED <<call, serial, handler_vars>>

NextRepeat == CallFromApiResponse

SpecRepeat == InitRepeat /\ [][NextRepeat]_vars

(***************************************************************************)
(* Spec: lambda_handler                                                    *)
(***************************************************************************)
Init == call = NoCall /\ history = <<>> /\ serial = NoSerial /\ HandlerStart

\* a handler that reports success whatever happened
ResponseAlwaysOk(statusCode, body) == [statusCode |-> 200, body |-> body, raised |-> ""]
Response(statusCode, body) == [statusCode |-> statusCode, body |-> body, raised |-> ""]
FetchErrorBody == "Failed to fetch data from source API"
JsonErrorBody == "Invalid JSON response from source API"
SuccessBody == "Tender data processed and sent to SQS queue."
BadGateway == 502
StatusOk == 200

\* --- Step 1: requests.get or raise_for_status raises a RequestException ---
FeedUnreachable ==
  /\ pc = "fetch"
  /\ feed_response' \in {"ConnectionError", "Timeout", "HTTPError"}
  /\ result' = Response(BadGateway, FetchErrorBody)
  /\ pc' = "done"
  /\ UNCHANGED <<call, history, serial, all_tenders, item_index, responses, processed_tenders,
                 skipped_count, fetch_log, message_batches, batch_index,
                 sqs_log, sent_count>>

\* response.json() raises: requests' own JSONDecodeError is a RequestException
\* and is caught by the first clause, json.JSONDecodeError by the second
FeedNotJson ==
  /\ pc = "fetch"
  /\ feed_response' = "NotJson"
  /\ \E body \in {FetchErrorBody, JsonErrorBody} :
       result' = Response(BadGateway, body)
  /\ pc' = "done"
  /\ UNCHANGED <<call, history, serial, all_tenders, item_index, responses, processed_tenders,
                 skipped_count, fetch_log, message_batches, batch_index,
                 sqs_log, sent_count>>

\* the body is JSON but no object ('list' has no 'get'), or its 'tenders' is
\* null (len(None)): neither except clause catches, the handler raises
FeedWrongShape ==
  /\ pc = "fetch"
  /\ \E shape \in { <<"NotAnObject", "AttributeError">>,
                     <<"TendersNull", "TypeError">> } :
       /\ feed_response' = shape[1]
       /\ result' = [statusCode |-> 0, body |-> "", raised |-> shape[2]]
  /\ pc' = "done"
  /\ UNCHANGED <<call, history, serial, all_tenders, item_index, responses, processed_tenders,
                 skipped_count, fetch_log, message_batches, batch_index,
                 sqs_log, sent_count>>

\* the feed answers with an object; a missing 'tenders' key is the empty list
FeedFetchedFrom(feeds) ==
  /\ pc = "fetch"
  /\ feed_response' = "ok"
  /\ \E feed \in feeds : all_tenders' = feed
  /\ pc' = "process"
  /\ UNCHANGED <<call, history, serial, item_index, responses, processed_tenders, skipped_count,
                 fetch_log, message_batches, batch_index, sqs_log, sent_count,
                 result>>

FeedFetched == FeedFetchedFrom(Feeds)

\* an iteration that does not count a row whose assembly raised
AfterItemUncountedRaise(r) ==
  /\ fetch_log' = fetch_log \o r.fetched
  /\ IF r.kind = "return" /\ r.value # None
       THEN /\ processed_tenders' = Append(processed_tenders, r.value)
            /\ UNCHANGED skipped_count
       ELSE /\ skipped_count' = IF r.kind = "raise" THEN skipped_count
                                ELSE skipped_count + 1
            /\ UNCHANGED processed_tenders

\* --- Step 2: one iteration of "for item in all_tenders", r being what
\* from_api_response did ---
AfterItem(r) ==
  /\ fetch_log' = fetch_log \o r.fetched
  /\ IF r.kind = "return" /\ r.value # None
       THEN /\ processed_tenders' = Append(processed_tenders, r.value)
            /\ UNCHANGED skipped_count
       ELSE \* None was returned, or "except Exception" caught what was raised
            /\ skipped_count' = skipped_count + 1
            /\ UNCHANGED processed_tenders

ProcessItemWith(nets) ==
  /\ pc = "process"
  /\ item_index < Len(all_tenders)
  /\ \E net \in nets :
       /\ responses' = Append(responses, net)
       /\ AfterItem(from_api_response(all_tenders[item_index + 1], net))
  /\ item_index' = item_index + 1
  /\ UNCHANGED <<call, history, serial, pc, feed_response, all_tenders, message_batches, batch_index, sqs_log,
                 sent_count, result>>

ProcessItem == ProcessItemWith(FeedNets)

\* --- Steps 3 and 4: the dicts of the tenders, cut into batches ---
batch_size == 10
Dicts(tenders) == [i \in 1..Len(tenders) |-> to_dict(tenders[i])]
\* batches that each run one dict into the next batch
BatchesOverlapping(dicts) ==
  [b \in 1..((Len(dicts) + batch_size - 1) \div batch_size) |->
     SubSeq(dicts, (b - 1) * batch_size + 1,
            IF b * batch_size + 1 < Len(dicts) THEN b * batch_size + 1
            ELSE Len(dicts))]

\* [dicts[i:i + batch_size] for i in range(0, len(dicts), batch_size)]
Batches(dicts) ==
  [b \in 1..((Len(dicts) + batch_size - 1) \div batch_size) |->
     SubSeq(dicts, (b - 1) * batch_size + 1,
            IF b * batch_size < Len(dicts) THEN b * batch_size ELSE Len(dicts))]

PrepareBatches ==
  /\ pc = "process"
  /\ item_index = Len(all_tenders)
  /\ message_batches' = Batches(Dicts(processed_tenders))
  /\ pc' = "send"
  /\ UNCHANGED <<call, history, serial, feed_response, all_tenders, item_index, responses, processed_tenders,
                 skipped_count, fetch_log, batch_index, sqs_log, sent_count,
                 result>>

MessagePrefix == <<"t","e","n","d","e","r","_","m","e","s","s","a","g","e","_">>
MessageGroupId == <<"S","a","n","r","a","l","T","e","n","d","e","r","S","c","r","a","p","e">>
\* the Entries of batch number b (counted from 0)
Entries(b, batch) ==
  [i \in 1..Len(batch) |->
     [Id |-> MessagePrefix \o IntToChars(b) \o <<"_">> \o IntToChars(i - 1),
      MessageBody |-> json_dumps(batch[i]),
      MessageGroupId |-> MessageGroupId]]

\* what send_message_batch does with n entries: it raises, or it answers
\* with each entry either Successful or Failed
SqsRaised == [raised |-> TRUE, Successful |-> 0, Failed |-> 0]
SqsAnswered(k, n) == [raised |-> FALSE, Successful |-> k, Failed |-> n - k]
SqsAnswers(n) == {SqsRaised} \cup { SqsAnswered(k, n) : k \in 0..n }

\* a send loop that gives up at the first send that raises
AfterSendStopOnRaise(answer) ==
  /\ sent_count' = IF answer.raised THEN sent_count
                   ELSE sent_count + answer.Successful
  /\ batch_index' = IF answer.raised THEN Len(message_batches)
                    ELSE batch_index + 1

\* the rest of the iteration: "sent_count += len(Successful)", or the
\* "except Exception" that only logs; either way the loop goes on
AfterSend(answer) ==
  /\ sent_count' = IF answer.raised THEN sent_count
                   ELSE sent_count + answer.Successful
  /\ batch_index' = batch_index + 1

\* one iteration of the send loop
SendBatch ==
  /\ pc = "send"
  /\ batch_index < Len(message_batches)
  /\ IF message_batches[batch_index + 1] = <<>>
       THEN \* "if not entries: continue"
            /\ batch_index' = batch_index + 1
            /\ UNCHANGED <<sqs_log, sent_count>>
       ELSE \E answer \in SqsAnswers(Len(message_batches[batch_index + 1])) :
              /\ sqs_log' =
                   Append(sqs_log,
                          [Entries |-> Entries(batch_index,
                                               message_batches[batch_index + 1]),
                           answer |-> answer])
              /\ AfterSend(answer)
  /\ UNCHANGED <<call, history, serial, pc, feed_response, all_tenders, item_index, responses, processed_tenders,
                 skipped_count, fetch_log, message_batches, result>>

\* --- Step 5 ---
ReturnSuccess ==
  /\ pc = "send"
  /\ batch_index = Len(message_batches)
  /\ result' = Response(StatusOk, SuccessBody)
  /\ pc' = "done"
  /\ UNCHANGED <<call, history, serial, feed_response, all_tenders, item_index, responses, processed_tenders,
                 skipped_count, fetch_log, message_batches, batch_index,
                 sqs_log, sent_count>>

Next ==
  \/ FeedUnreachable
  \/ FeedNotJson
  \/ FeedWrongShape
  \/ FeedFetched
  \/ ProcessItem
  \/ PrepareBatches
  \/ SendBatch
  \/ ReturnSuccess

Spec == Init /\ [][Next]_vars

(***************************************************************************)
(* SpecBatches: lambda_handler on the feeds of LongFeeds                   *)
(***************************************************************************)
FeedFetchedLong == FeedFetchedFrom(LongFeeds)
ProcessItemLong == ProcessItemWith(LongNets)

NextBatches ==
  \/ FeedUnreachable
  \/ FeedNotJson
  \/ FeedWrongShape
  \/ FeedFetchedLong
  \/ ProcessItemLong
  \/ PrepareBatches
  \/ SendBatch
  \/ ReturnSuccess

SpecBatches == Init /\ [][NextBatches]_vars

(***************************************************************************)
(* Properties of from_api_response (SpecAssemble)                          *)
(***************************************************************************)
IsNoneValue(x) == DOMAIN x = {"t", "v"} /\ x.t = "none"
IsTender(x) == "title" \in DOMAIN x

\* a list of six or more fields, all of them text
TextRow(item) ==
  /\ IsList(item)
  /\ Len(item.v) >= 6
  /\ \A k \in 1..Len(item.v) : IsStr(item.v[k])

ReturnedTender == call.made /\ call.result.kind = "return" /\ IsTender(call.result.value)
FetchIssued == call.made /\ call.result.fetched # <<>>
FetchSucceeded == FetchIssued /\ call.net.kind = "ok"

\* the title field once entity-decoded, and what the link pattern finds in it
DecodedTitle == unescape(call.item.v[1].v)
LinkOf(item) == HrefSearch(unescape(item.v[1].v))

\* the provisional values of a text row: the identifier, the description
\* (row field 3) and the notice text (row field 4)
ProvisionalId(item) == IF LinkOf(item).ok THEN JoinSplit(LinkOf(item).g2) ELSE NA
ProvisionalDescription(item) ==
  Strip(Replace(JoinSplit(unescape(item.v[4].v)), TenderNotice, <<>>))
ProvisionalNotice(item) == JoinSplit(unescape(item.v[5].v))

\* C1: from_api_response returns None, without raising and without fetching a
\* detail page, for every input that is not a list or is a list of fewer than
\* 6 fields; for every list of 6 or more text fields it returns a Tender.
C1_RejectsWrongShape ==
  call.made =>
    /\ (~IsList(call.item) \/ Len(call.item.v) < 6) =>
         /\ call.result.kind = "return"
         /\ IsNoneValue(call.result.value)
         /\ call.result.fetched = <<>>
    /\ TextRow(call.item) =>
         /\ call.result.kind = "return"
         /\ IsTender(call.result.value)

C1_Witness ==
  /\ call.made
  /\ IsList(call.item) /\ Len(call.item.v) = 5
  /\ call.result.kind = "return" /\ IsNoneValue(call.result.value)

\* C2: when the detail-page fetch fails (no connection, timeout, error
\* status) from_api_response still returns a Tender, and the Tender carries
\* the provisional values only: the title is the link-text identifier, the
\* description and notice text come from row fields 3 and 4, tenderNumber,
\* category and region come from the row, and publishedDate is absent.
C2_FailedFetchKeepsProvisional ==
  (FetchIssued /\ FetchFailed(call.net) /\ TextRow(call.item)) =>
    /\ ReturnedTender
    /\ call.result.value.title = Title(ProvisionalId(call.item))
    /\ call.result.value.description = Title(ProvisionalDescription(call.item))
    /\ call.result.value.full_notice_text = Title(ProvisionalNotice(call.item))
    /\ call.result.value.tender_number = Upper(ProvisionalId(call.item))
    /\ call.result.value.category = Title(Strip(call.item.v[2].v))
    /\ call.result.value.region = Title(Strip(call.item.v[3].v))
    /\ call.result.value.published_date = None

C2_Witness ==
  /\ FetchIssued /\ call.net.kind = "Timeout" /\ TextRow(call.item)
  /\ ReturnedTender
  /\ call.result.value.title = <<"R","f","p","1","2","3","/","2","0","2","5">>
  /\ call.result.value.description = <<"U","p","g","r","a","d","e"," ","O","f"," ","N","2">>

\* the text a lookup takes from a page element: the stripped text when the
\* element is there and the text is not empty, else the provisional value
PresentNonEmpty(found, el) == found /\ el # None /\ Strip(el.v) # <<>>
Preferred(found, el, provisional) ==
  IF PresentNonEmpty(found, el) THEN Strip(el.v) ELSE provisional

\* C3: after a successful detail-page fetch, each of title, description and
\* notice text is the detail-page value when that element is present and its
\* text is non-empty, and the provisional value of the row otherwise (an
\* element with empty text does not replace the provisional value).
C3_DetailOverridesWhenNonEmpty ==
  (FetchSucceeded /\ ReturnedTender) =>
    /\ call.result.value.title =
         Title(Preferred(call.net.page.header_div, call.net.page.h2,
                         ProvisionalId(call.item)))
    /\ call.result.value.description =
         Title(Preferred(TRUE, call.net.page.h3, ProvisionalDescription(call.item)))
    /\ call.result.value.full_notice_text =
         Title(Preferred(call.net.page.notice_label, call.net.page.notice_cell,
                         ProvisionalNotice(call.item)))

\* the timestamps expected of the date fields of the rows
DateOracle ==
  { <<DateSlash, Datetime(2025, 12, 31, 14, 0)>>,
    <<DateDayFirst, Datetime(2025, 12, 31, 0, 0)>>,
    <<DateVerbose, Datetime(2025, 12, 31, 14, 0)>>,
    <<Str(<<" ","2","9","/","0","2","/","2","0","2","4"," ">>), Datetime(2024, 2, 29, 0, 0)>>,
    <<Str(<<"2","0","2","5","/","1","/","5"," ","9",":","0","5">>), Datetime(2025, 1, 5, 9, 5)>> }
ExpectedDate(field) ==
  IF \E e \in DateOracle : e[1] = field
    THEN (CHOOSE e \in DateOracle : e[1] = field)[2]
    ELSE None

\* C4: parse_sanral_date returns the exact timestamp of a date in each of the
\* three formats 'YYYY/MM/DD HH:MM', 'DD/MM/YYYY' and the verbose
\* '31 December 2025. 14H00', so closingDate is absent only when the row's
\* date field is in none of them; an empty, non-text or unrecognized value
\* gives absent.
C4_SupportedDatesParse ==
  ReturnedTender =>
    call.result.value.closing_date = ExpectedDate(call.item.v[6])

\* the notice text the email is read from: the detail page's when the scrape
\* replaced it, else the row's
NoticeReplaced ==
  FetchSucceeded /\ call.net.page.notice_label /\ call.net.page.notice_cell # None
FinalNotice ==
  IF NoticeReplaced THEN Strip(call.net.page.notice_cell.v)
  ELSE ProvisionalNotice(call.item)
LastAddress(text) ==
  IF FindAllEmails(text) = <<>> THEN <<>>
  ELSE Lower(FindAllEmails(text)[Len(FindAllEmails(text))])

\* C5: the Tender's email is the lower-cased last address found in the final
\* notice text (the detail page's when enrichment replaced it, else the
\* row's), and empty when that text holds none; an address that occurs only in
\* a replaced provisional text never becomes the email, and the email stays
\* lower case although fullNoticeText is title-cased.
C5_EmailIsLastOfFinalNotice ==
  ReturnedTender =>
    /\ call.result.value.email = LastAddress(FinalNotice)
    /\ call.result.value.email = Lower(call.result.value.email)
    /\ call.result.value.full_notice_text = Title(FinalNotice)
    /\ (FinalNotice = JoinSplit(NoticeTwoAddresses.v)) =>
         call.result.value.email = <<"b","i","d",".","d","e","s","k","@","n","r","a",".","c","o",".","z","a">>
    /\ (FinalNotice = <<"N","o"," ","c","o","n","t","a","c","t"," ","g","i","v","e","n">>) => call.result.value.email = <<>>

C5_Witness ==
  /\ ReturnedTender /\ NoticeReplaced
  /\ FindAllEmails(ProvisionalNotice(call.item)) # <<>>
  /\ FinalNotice = <<"D","e","t","a","i","l","s",":"," ","B","i","d","s","@","S","a","n","r","a","l",".","c","o",".","z","a">>
  /\ call.result.value.email = <<"b","i","d","s","@","s","a","n","r","a","l",".","c","o",".","z","a">>
  /\ call.result.value.full_notice_text = <<"D","e","t","a","i","l","s",":"," ","B","i","d","s","@","S","a","n","r","a","l",".","C","o",".","Z","a">>

\* C6: supportingDocuments holds exactly one entry, named "Tender Details"
\* with the portal origin prefixed to the row's href path, when a URL was
\* resolved from the title markup, whether or not the fetch succeeded, and is
\* empty otherwise; tags is always empty.
C6_OneSupportingDocPerUrl ==
  ReturnedTender =>
    /\ call.result.value.tags = <<>>
    /\ call.result.value.supporting_docs =
         IF LinkOf(call.item).ok
           THEN << [name |-> <<"T","e","n","d","e","r"," ","D","e","t","a","i","l","s">>,
                    url |-> <<"h","t","t","p","s",":","/","/","w","w","w",".","n","r","a",".","c","o",".","z","a">>
                              \o LinkOf(call.item).g1] >>
           ELSE <<>>
    /\ (call.item.v[1] = TitleLink) =>
         call.result.value.supporting_docs[1].url =
           <<"h","t","t","p","s",":","/","/","w","w","w",".","n","r","a",".","c","o",".","z","a","/","t","e","n","d","e","r","/","1","2","3">>

C6_Witness ==
  /\ ReturnedTender /\ FetchIssued /\ FetchFailed(call.net)
  /\ Len(call.result.value.supporting_docs) = 1
  /\ call.result.value.supporting_docs[1].url =
       <<"h","t","t","p","s",":","/","/","w","w","w",".","n","r","a",".","c","o",".","z","a","/","t","/","9">>

\* text s holds markup of the shape href="...">...</a>: the opening at p with
\* a non-empty target up to e, the closing at c, and between them text with no
\* line break other than in leading or trailing whitespace
ContainsHyperlink(s) ==
  \E p \in 1..Len(s) : \E e \in (p + 6)..Len(s) : \E c \in (e + 3)..Len(s) :
    /\ StartsAtI(s, p, HrefOpen)
    /\ \A k \in (p + 6)..e : s[k] # "\""
    /\ StartsAt(s, e + 1, <<"\"", ">">>)
    /\ StartsAtI(s, c, AnchorClose)
    /\ \E x \in (e + 3)..c : \E y \in x..c :
         /\ \A k \in (e + 3)..(x - 1) : IsSpace(s[k])
         /\ \A k \in x..(y - 1) : s[k] # "\n"
         /\ \A k \in y..(c - 1) : IsSpace(s[k])

PublishedOracle == { <<Str(<<"O","c","t","o","b","e","r"," ","1","0",","," ","2","0","2","5">>), Datetime(2025, 10, 10, 0, 0)>> }
ExpectedPublished(cell) ==
  IF \E e \in PublishedOracle : e[1] = cell
    THEN (CHOOSE e \in PublishedOracle : e[1] = cell)[2]
    ELSE None

\* C8: publishedDate is present only when the detail-page fetch succeeded, a
\* "Create Date" header cell with an adjacent cell exists and that cell's text
\* parses as 'Month DD, YYYY'; it is absent when enrichment was skipped, the
\* fetch failed, the cell is missing or the text does not parse, and a text
\* that does not parse does not discard the title, description or notice text
\* taken from the same page.
C8_PublishedDateOnlyFromPage ==
  ReturnedTender =>
    /\ call.result.value.published_date =
         IF FetchSucceeded /\ call.net.page.create_th
           THEN ExpectedPublished(call.net.page.create_td)
           ELSE None
    /\ (FetchSucceeded /\ call.net.page = UnparseableDatePage) =>
         /\ call.result.value.title = <<"R","o","a","d"," ","U","p","g","r","a","d","e"," ","T","e","n","d","e","r">>
         /\ call.result.value.description = <<"U","p","g","r","a","d","e"," ","O","f"," ","N","2"," ","S","e","c","t","i","o","n">>
         /\ call.result.value.full_notice_text = <<"D","e","t","a","i","l","s",":"," ","B","i","d","s","@","S","a","n","r","a","l",".","C","o",".","Z","a">>
         /\ call.result.warnings = 1

C8_Witness ==
  /\ ReturnedTender /\ FetchSucceeded
  /\ call.net.page = UnparseableDatePage
  /\ call.result.value.published_date = None
  /\ call.result.value.title = <<"R","o","a","d"," ","U","p","g","r","a","d","e"," ","T","e","n","d","e","r">>

(***************************************************************************)
(* Properties of lambda_handler (Spec)                                     *)
(***************************************************************************)
FeedFailed == feed_response \in {"ConnectionError", "Timeout", "HTTPError", "NotJson"}

\* C9: when the feed is unreachable, answers with an error status or with a
\* body that is not JSON, lambda_handler returns statusCode 502, which differs
\* from the 200 it returns for a reachable feed with zero tenders; no row is
\* assembled and no message is sent.
C9_FeedFailureIsBadGateway ==
  /\ FeedFailed =>
       /\ pc = "done"
       /\ result.statusCode = 502
       /\ result.raised = ""
       /\ result.body \in {"Failed to fetch data from source API",
                           "Invalid JSON response from source API"}
       /\ item_index = 0 /\ processed_tenders = <<>> /\ skipped_count = 0
       /\ fetch_log = <<>> /\ sqs_log = <<>> /\ sent_count = 0
  /\ (feed_response = "ok" /\ all_tenders = <<>> /\ pc = "done") =>
       /\ result.statusCode = 200
       /\ result.body = "Tender data processed and sent to SQS queue."

C9_Witness ==
  /\ feed_response = "NotJson"
  /\ pc = "done"
  /\ result.statusCode = 502
  /\ result.body = "Invalid JSON response from source API"

\* a row that is null or wrongly shaped, or whose assembly raises: one of its
\* first five fields is not text
BadRow(item) ==
  \/ ~IsList(item)
  \/ Len(item.v) < 6
  \/ \E k \in 1..5 : ~IsStr(item.v[k])

\* the Tenders of the rows from position i on that are not bad, each
\* assembled on its own with the response its detail page gave
RECURSIVE TendersOfGoodRows(_, _, _)
TendersOfGoodRows(rows, nets, i) ==
  IF i > Len(rows) THEN <<>>
  ELSE (IF BadRow(rows[i]) THEN <<>>
        ELSE <<from_api_response(rows[i], nets[i]).value>>)
         \o TendersOfGoodRows(rows, nets, i + 1)

NumBad(rows) == Cardinality({i \in 1..Len(rows) : BadRow(rows[i])})

\* C10: lambda_handler handles each row of the feed once and either appends
\* its Tender or counts it as skipped, so processed + skipped is the number of
\* rows when the loop ends; a row that is null, wrongly shaped or whose
\* assembly raises is skipped without raising, and the other rows are
\* processed exactly as they would be without it.
C10_EveryRowProcessedOrSkipped ==
  /\ Len(processed_tenders) + skipped_count = item_index
  /\ Len(responses) = item_index
  /\ item_index <= Len(all_tenders)
  /\ pc \in {"send", "done"} /\ feed_response = "ok" =>
       /\ item_index = Len(all_tenders)
       /\ result.raised = ""
  /\ (pc = "send" /\ batch_index = 0) =>
       /\ skipped_count = NumBad(all_tenders)
       /\ processed_tenders = TendersOfGoodRows(all_tenders, responses, 1)

C10_Witness ==
  /\ pc = "send"
  /\ all_tenders = <<BadCategoryRow, LinkRow>>
  /\ skipped_count = 1
  /\ Len(processed_tenders) = 1
  /\ processed_tenders[1].tender_number = <<"R","F","P","1","2","3","/","2","0","2","5">>
  /\ Len(fetch_log) = 2

(***************************************************************************)
(* Properties of the send loop (SpecBatches)                               *)
(***************************************************************************)
\* the entries SQS reported Successful over the sends of a log
RECURSIVE SumSuccessful(_)
SumSuccessful(log) ==
  IF log = <<>> THEN 0
  ELSE (IF log[1].answer.raised THEN 0 ELSE log[1].answer.Successful)
         + SumSuccessful(Tail(log))

DeliveryFailed(send) == send.answer.raised \/ send.answer.Failed > 0

\* C11: once the feed was fetched, a send that raises or reports entries
\* Failed neither stops the send loop nor changes what lambda_handler
\* returns: every batch the loop has passed was sent whatever the earlier
\* sends answered, at the end every batch was sent and the handler returned
\* statusCode 200 without raising; sent_count is the number of entries
\* reported Successful and never exceeds the number of processed tenders.
C11_DeliveryFailureNeverStops ==
  /\ (pc \in {"send", "done"} /\ feed_response = "ok") =>
       /\ Len(sqs_log) = batch_index
       /\ \A b \in 1..Len(sqs_log) :
            sqs_log[b].Entries = Entries(b - 1, message_batches[b])
       /\ sent_count = SumSuccessful(sqs_log)
       /\ sent_count <= Len(processed_tenders)
  /\ (pc = "done" /\ feed_response = "ok") =>
       /\ Len(sqs_log) = Len(message_batches)
       /\ result.statusCode = 200
       /\ result.raised = ""

\* three batches, the first send raised, the second reported entries Failed
C11_Witness ==
  /\ pc = "done"
  /\ feed_response = "ok"
  /\ Len(message_batches) = 3
  /\ Len(sqs_log) = 3
  /\ sqs_log[1].answer.raised
  /\ ~sqs_log[2].answer.raised /\ sqs_log[2].answer.Failed > 0
  /\ sqs_log[2].answer.Successful > 0
  /\ sqs_log[3].answer.Successful = 1
  /\ sent_count < Len(processed_tenders)
  /\ result.statusCode = 200

(***************************************************************************)
(* Properties of to_dict (SpecSerialize)                                   *)
(***************************************************************************)
TenderKeys ==
  { <<"t","i","t","l","e">>,
    <<"d","e","s","c","r","i","p","t","i","o","n">>,
    <<"s","o","u","r","c","e">>,
    <<"p","u","b","l","i","s","h","e","d","D","a","t","e">>,
    <<"c","l","o","s","i","n","g","D","a","t","e">>,
    <<"s","u","p","p","o","r","t","i","n","g","_","d","o","c","s">>,
    <<"t","a","g","s">>,
    <<"t","e","n","d","e","r","N","u","m","b","e","r">>,
    <<"c","a","t","e","g","o","r","y">>,
    <<"r","e","g","i","o","n">>,
    <<"e","m","a","i","l">>,
    <<"f","u","l","l","N","o","t","i","c","e","T","e","x","t">> }

KeysOf(d) == { d.v[i][1] : i \in 1..Len(d.v) }
\* d[key], for a key d has
Get(d, key) == d.v[CHOOSE i \in 1..Len(d.v) : d.v[i][1] = key][2]

\* the timestamp an ISO-8601 text YYYY-MM-DDTHH:MM:SS stands for, None
\* for any other text
FromIso(s) ==
  IF /\ Len(s) = 19
     /\ \A i \in {1, 2, 3, 4, 6, 7, 9, 10, 12, 13, 15, 16, 18, 19} : IsDigit(s[i])
     /\ s[5] = "-" /\ s[8] = "-" /\ s[11] = "T" /\ s[14] = ":" /\ s[17] = ":"
     /\ DigitsVal(SubSeq(s, 18, 19)) = 0
  THEN Datetime(DigitsVal(SubSeq(s, 1, 4)), DigitsVal(SubSeq(s, 6, 7)),
                DigitsVal(SubSeq(s, 9, 10)), DigitsVal(SubSeq(s, 12, 13)),
                DigitsVal(SubSeq(s, 15, 16)))
  ELSE None

\* a serialized timestamp read back
DateBack(x) == IF x.t = "str" THEN FromIso(x.v) ELSE None

\* the Tender a flat mapping stands for
FromDict(d) ==
  [title |-> Get(d, <<"t","i","t","l","e">>).v,
   description |-> Get(d, <<"d","e","s","c","r","i","p","t","i","o","n">>).v,
   source |-> Get(d, <<"s","o","u","r","c","e">>).v,
   published_date |-> DateBack(Get(d, <<"p","u","b","l","i","s","h","e","d","D","a","t","e">>)),
   closing_date |-> DateBack(Get(d, <<"c","l","o","s","i","n","g","D","a","t","e">>)),
   supporting_docs |->
     [i \in 1..Len(Get(d, <<"s","u","p","p","o","r","t","i","n","g","_","d","o","c","s">>).v) |->
        SupportingDoc(Get(Get(d, <<"s","u","p","p","o","r","t","i","n","g","_","d","o","c","s">>).v[i], <<"n","a","m","e">>).v,
                      Get(Get(d, <<"s","u","p","p","o","r","t","i","n","g","_","d","o","c","s">>).v[i], <<"u","r","l">>).v)],
   tags |-> [i \in 1..Len(Get(d, <<"t","a","g","s">>).v) |-> Get(d, <<"t","a","g","s">>).v[i].v],
   tender_number |-> Get(d, <<"t","e","n","d","e","r","N","u","m","b","e","r">>).v,
   category |-> Get(d, <<"c","a","t","e","g","o","r","y">>).v,
   region |-> Get(d, <<"r","e","g","i","o","n">>).v,
   email |-> Get(d, <<"e","m","a","i","l">>).v,
   full_notice_text |-> Get(d, <<"f","u","l","l","N","o","t","i","c","e","T","e","x","t">>).v]

\* publishedDate or closingDate: null for an absent timestamp, else its
\* ISO-8601 text
IsoOrNull(x, date) ==
  IF date = None THEN x = None
  ELSE x.t = "str" /\ FromIso(x.v) = date

\* C12: to_dict returns a mapping with exactly the twelve keys, each once;
\* reading the mapping back gives the Tender, field for field; every value
\* but the two lists is text or null; supporting_docs and tags are lists,
\* as long as the Tender's, empty when it has none; publishedDate and
\* closingDate are the ISO-8601 text of the timestamp, or null when absent.
C12_ToDictRoundTrip ==
  serial.done =>
    /\ KeysOf(serial.data) = TenderKeys
    /\ Len(serial.data.v) = Cardinality(TenderKeys)
    /\ FromDict(serial.data) = serial.tender
    /\ \A i \in 1..Len(serial.data.v) :
         serial.data.v[i][2].t \in
           (IF serial.data.v[i][1] \in { <<"s","u","p","p","o","r","t","i","n","g","_","d","o","c","s">>, <<"t","a","g","s">> }
              THEN {"list"} ELSE {"str", "none"})
    /\ Len(Get(serial.data, <<"s","u","p","p","o","r","t","i","n","g","_","d","o","c","s">>).v) = Len(serial.tender.supporting_docs)
    /\ Len(Get(serial.data, <<"t","a","g","s">>).v) = Len(serial.tender.tags)
    /\ IsoOrNull(Get(serial.data, <<"p","u","b","l","i","s","h","e","d","D","a","t","e">>), serial.tender.published_date)
    /\ IsoOrNull(Get(serial.data, <<"c","l","o","s","i","n","g","D","a","t","e">>), serial.tender.closing_date)

\* a Tender with no documents, no tags, no published date and a closing
\* date before the year 1000, serialized
C12_Witness ==
  /\ serial.done
  /\ serial.tender.supporting_docs = <<>>
  /\ serial.tender.tags = <<>>
  /\ serial.tender.published_date = None
  /\ Get(serial.data, <<"s","u","p","p","o","r","t","i","n","g","_","d","o","c","s">>) = List(<<>>)
  /\ Get(serial.data, <<"t","a","g","s">>) = List(<<>>)
  /\ Get(serial.data, <<"p","u","b","l","i","s","h","e","d","D","a","t","e">>) = None
  /\ Get(serial.data, <<"c","l","o","s","i","n","g","D","a","t","e">>) = Str(<<"0","9","8","7","-","0","6","-","0","5","T","0","4",":","0","3",":","0","0">>)

RECURSIVE EntriesSent(_)
EntriesSent(log) ==
  IF log = <<>> THEN 0 ELSE Len(log[1].Entries) + EntriesSent(Tail(log))

\* every send made so far was made after the row loop ended, and send
\* number b carries, in feed order, the tenders from position 10 (b - 1) + 1
\* on: at most 10 and at least one, 10 unless it is the last batch; its
\* entry Ids differ from one another
SendsInOrder ==
  /\ sqs_log # <<>> =>
       /\ pc \in {"send", "done"}
       /\ item_index = Len(all_tenders)
       /\ Len(responses) = Len(all_tenders)
  /\ \A b \in 1..Len(sqs_log) :
       /\ Len(sqs_log[b].Entries) \in 1..10
       /\ b < Len(message_batches) => Len(sqs_log[b].Entries) = 10
       /\ 10 * (b - 1) + Len(sqs_log[b].Entries) <= Len(processed_tenders)
       /\ \A i \in 1..Len(sqs_log[b].Entries) :
            sqs_log[b].Entries[i].MessageBody =
              json_dumps(to_dict(processed_tenders[10 * (b - 1) + i]))
       /\ \A i, j \in 1..Len(sqs_log[b].Entries) :
            i # j => sqs_log[b].Entries[i].Id # sqs_log[b].Entries[j].Id
  /\ (pc = "done" /\ feed_response = "ok") =>
       EntriesSent(sqs_log) = Len(processed_tenders)

\* a step handles one row, the next of the feed, or makes one send; a send
\* comes after the last row and changes nothing of what the row loop built
RowsThenSends ==
  /\ item_index' # item_index =>
       /\ item_index' = item_index + 1
       /\ sqs_log = <<>> /\ sqs_log' = <<>>
  /\ fetch_log' # fetch_log => item_index' = item_index + 1
  /\ sqs_log' # sqs_log =>
       /\ item_index = Len(all_tenders)
       /\ Len(sqs_log') = Len(sqs_log) + 1
       /\ UNCHANGED <<item_index, processed_tenders, skipped_count, fetch_log,
                      message_batches>>

\* C14: lambda_handler sends nothing before it has handled every row of the
\* feed, one row per step in feed order; the serialized tenders are then
\* sent in the order they were processed, in consecutive batches of at most
\* 10 entries, none of them empty, each tender in exactly one entry of one
\* batch, and the entry Ids of a batch are pairwise distinct.
C14_RowsThenOrderedBatches == []SendsInOrder /\ [][RowsThenSends]_vars

\* 25 rows, 21 processed and 4 skipped, sent as batches of 10, 10 and 1
C14_Witness ==
  /\ pc = "done"
  /\ Len(all_tenders) = 25
  /\ Len(processed_tenders) = 21
  /\ skipped_count = 4
  /\ Len(sqs_log) = 3
  /\ Len(sqs_log[1].Entries) = 10
  /\ Len(sqs_log[2].Entries) = 10
  /\ Len(sqs_log[3].Entries) = 1
  /\ sqs_log[3].Entries[1].MessageBody = json_dumps(to_dict(processed_tenders[21]))
  /\ sqs_log[2].Entries[1].Id # sqs_log[2].Entries[2].Id

=============================================================================
